---- MODULE Spec2Model ----
(***************************************************************************)
(* Model of the shift selector's time logic (timeLogic.ts):                *)
(* getShiftTimeRange and isShiftActive, together with the behaviour of    *)
(* the date library calls they make (dayjs with the utc and timezone      *)
(* plugins) and of the JavaScript Date those calls are built on; and of   *)
(* the panel component (SimplePanel.tsx) that calls getShiftTimeRange     *)
(* from its click handler.                                                 *)
(*                                                                         *)
(* Instants are whole seconds since 2025-01-01T00:00:00Z (milliseconds    *)
(* are not modelled).  UTC offsets are minutes east of UTC, as in dayjs.  *)
(***************************************************************************)
EXTENDS Integers, Sequences, FiniteSets, TLC

VARIABLES
    callShift,      \* the shift passed to the call
    callTz,         \* the business timezone passed to the call
    callDate,       \* the selectedDate passed to the call (given = FALSE: omitted)
    clock,          \* the current instant (Date.now(), dayjs())
    clientTz,       \* the zone of the machine running the code
    op,             \* which operation has been called: "none" before any
    result,         \* what getShiftTimeRange returned or threw
    active,         \* what isShiftActive returned or threw
    options,        \* the panel's options (props)
    selectedDateState,  \* the panel's selectedDate state
    selectedShift,  \* the panel's selectedShift state (JsNullShift: null)
    error,          \* the panel's error state ("": null)
    timeRangeCalls, \* how many times the panel has called onChangeTimeRange
    hostTimeRange,  \* the {from, to} of the last onChangeTimeRange call
    before,         \* the panel's state before its last event
    boundary,       \* the ErrorBoundary instance: its state, its props and
                    \* what its last render showed
    editor          \* the shifts editor: its value prop and what its last
                    \* handler did

panelVars ==
    <<options, selectedDateState, selectedShift, error, timeRangeCalls,
      hostTimeRange, before>>

componentVars == <<boundary, editor>>

vars ==
    <<callShift, callTz, callDate, clock, clientTz, op, result, active, panelVars,
      componentVars>>

\* ------------------------------------------------------------------ bounds

\* dateOffset of a configured shift ranges over -MaxOffset..MaxOffset
MaxOffset == 1

\* the panel is followed up to MaxCalls calls of onChangeTimeRange
MaxCalls == 2

\* How many times one boundary instance is rendered, and how many instances
\* are mounted one after the other.
MaxRenders == 3

MaxMounts == 2

\* How many events the editor handles.
MaxEdits == 2

\* ---------------------------------------------------------- civil calendar

\* Month lengths of the modelled year (2025, not a leap year).
MonthLen == <<31, 28, 31, 30, 31, 30, 31, 31, 30, 31, 30, 31>>

RECURSIVE DaysBefore(_)
\* Days of the year before the first day of month m.
DaysBefore(m) == IF m = 1 THEN 0 ELSE DaysBefore(m - 1) + MonthLen[m - 1]

\* Parsing "YYYY-MM-DD" (here a record [month, day] of 2025) as UTC midnight:
\* dayjs.utc(input).valueOf(), in seconds.
ParseDateUtc(date) == (DaysBefore(date.month) + date.day - 1) * 86400

RECURSIVE MonthOfDay(_, _)
\* The month holding the 0-based day-of-year n, searching from month m.
MonthOfDay(n, m) == IF n < DaysBefore(m) + MonthLen[m] THEN m ELSE MonthOfDay(n, m + 1)

\* The civil date shown by a wall-clock reading w (seconds of local time).
DateOfWall(w) ==
    LET n == w \div 86400
        m == MonthOfDay(n, 1)
    IN  [month |-> m, day |-> n - DaysBefore(m) + 1]

\* Hour and minute shown by a wall-clock reading.
HourOfWall(w) == (w % 86400) \div 3600
MinuteOfWall(w) == (w % 3600) \div 60
SecondOfWall(w) == w % 60

\* The civil date n days after date (n may be negative).
AddCivilDays(date, n) == DateOfWall(ParseDateUtc(date) + n * 86400)

\* --------------------------------------------------------------- time zones

\* The IANA zones of the model: standard and daylight offsets (minutes) and
\* the instants of 2025 at which daylight time starts and ends.
ZoneRules ==
    [ UTC           |-> [std |-> 0, dst |-> 0, start |-> 0, end |-> 0],
      EuropeWarsaw  |-> [std |-> 60, dst |-> 120,
                         start |-> 88 * 86400 + 3600,     \* 2025-03-30T01:00Z
                         end   |-> 298 * 86400 + 3600],   \* 2025-10-26T01:00Z
      AmericaNewYork |-> [std |-> -300, dst |-> -240,
                         start |-> 67 * 86400 + 7 * 3600,   \* 2025-03-09T07:00Z
                         end   |-> 305 * 86400 + 6 * 3600]  \* 2025-11-02T06:00Z
    ]

\* UTC offset (minutes) of zone z at instant t.
Off(z, t) ==
    LET r == ZoneRules[z]
    IN  IF r.start <= t /\ t < r.end THEN r.dst ELSE r.std

\* Wall-clock reading of instant t in zone z (what formatting t in z shows).
Wall(z, t) == t + Off(z, t) * 60

\* JavaScript's local-time-to-UTC rule in zone z for wall-clock reading w:
\* the earliest instant that shows w; for a reading skipped by a forward
\* transition, the offset in force before the transition is used.
LocalToUtc(z, w) ==
    LET r  == ZoneRules[z]
        c1 == w - r.std * 60
        c2 == w - r.dst * 60
        ok1 == Wall(z, c1) = w
        ok2 == Wall(z, c2) = w
    IN  IF ok1 /\ ok2 THEN (IF c1 < c2 THEN c1 ELSE c2)
        ELSE IF ok1 THEN c1
        ELSE IF ok2 THEN c2
        ELSE c1

\* ------------------------------------------------------- JavaScript Date

\* const v = a; F(v): a is evaluated once and F works on its value.
With(a, F(_)) == CHOOSE r \in { F(v) : v \in {a} } : TRUE

\* Date.prototype.getTimezoneOffset() of Date d in the client zone c:
\* minutes, positive west of UTC.
GetTimezoneOffset(c, d) == -Off(c, d)

\* ------------------------------------------------------- dayjs instances

\* A dayjs instance: $d (the Date, as an instant), $u (UTC mode), $offset
\* (hasOffset says whether it is defined), $x.$localOffset (0 stands for
\* undefined as well: the library reads it with ||) and $x.$timezone
\* ("" when not set).
LocalDayjs(d) ==
    [d |-> d, u |-> FALSE, hasOffset |-> FALSE, offset |-> 0,
     localOffset |-> 0, timezone |-> ""]

\* dayjs(date, {utc: true})
UtcDayjs(d) == [LocalDayjs(d) EXCEPT !.u = TRUE]

\* init(): the calendar fields an instance reads from its Date, as one
\* wall-clock reading: the UTC fields in UTC mode, else the fields in the
\* client's local zone.
Fields(c, x) == IF x.u THEN x.d ELSE Wall(c, x.d)

\* The Date setters ($set): write a wall-clock reading back through
\* setUTC... in UTC mode, else through the client-local setters.
FromFields(c, x, w) == [x EXCEPT !.d = IF x.u THEN w ELSE LocalToUtc(c, w)]

\* valueOf() of the utc plugin.
ValueOf(c, x) ==
    LET addedOffset ==
            IF x.hasOffset
            THEN x.offset + (IF x.localOffset # 0 THEN x.localOffset
                             ELSE GetTimezoneOffset(c, x.d))
            ELSE 0
    IN  x.d - addedOffset * 60

\* utcOffset() read (offsets of the modelled zones are multiples of 15).
UtcOffsetGet(c, x) ==
    IF x.u THEN 0 ELSE IF x.hasOffset THEN x.offset ELSE -GetTimezoneOffset(c, x.d)

\* utcOffset(input) without keepLocalTime (|input| > 16, so it is minutes).
UtcOffsetSet(c, x, input) ==
    IF input # 0
    THEN LET localTimezoneOffset ==
                 IF x.u THEN GetTimezoneOffset(c, ValueOf(c, x)) ELSE -UtcOffsetGet(c, x)
         IN  [LocalDayjs(ValueOf(c, x) + (input + localTimezoneOffset) * 60)
                EXCEPT !.hasOffset = TRUE, !.offset = input,
                       !.localOffset = localTimezoneOffset]
    ELSE UtcDayjs(ValueOf(c, x))

\* utcOffset(input, true): keepLocalTime.
UtcOffsetKeep(x, input) ==
    [x EXCEPT !.hasOffset = TRUE, !.offset = input, !.u = (input = 0)]

\* hour(h), minute(m), second(s) setters; add(n, 'day'); add(n, 'minute').
SetHour(c, x, h) ==
    LET w == Fields(c, x)
    IN  FromFields(c, x, (w \div 86400) * 86400 + h * 3600 + (w % 3600))

SetMinute(c, x, m) ==
    LET w == Fields(c, x)
    IN  FromFields(c, x, w - (w % 3600) + m * 60 + (w % 60))

SetSecond(c, x, s) ==
    LET w == Fields(c, x)
    IN  FromFields(c, x, w - (w % 60) + s)

AddDays(c, x, n) == FromFields(c, x, Fields(c, x) + n * 86400)

AddMinutes(x, n) == [x EXCEPT !.d = @ + n * 60]

\* tzOffset(timestamp, timezone) of the timezone plugin.
tzOffset(ts, tz) == Off(tz, ts)

\* fixOffset(localTS, o0, tz): <<instant, offset>> for a local reading, o0
\* being the guess.
fixOffset(localTS, o0, tz) ==
    LET utcGuess  == localTS - o0 * 60
        o2        == tzOffset(utcGuess, tz)
        utcGuess2 == utcGuess - (o2 - o0) * 60
        o3        == tzOffset(utcGuess2, tz)
    IN  IF o0 = o2 THEN <<utcGuess, o0>>
        ELSE IF o2 = o3 THEN <<utcGuess2, o2>>
        ELSE <<localTS - (IF o2 < o3 THEN o2 ELSE o3) * 60, IF o2 < o3 THEN o3 ELSE o2>>

\* dayjs.tz(input, tz) for a date string input: the guess is the zone's
\* offset at the current instant.
TzParse(c, now, date, tz) ==
    LET previousOffset == tzOffset(now, tz)
        localTs == ParseDateUtc(date)
    IN  With(fixOffset(localTs, previousOffset, tz),
             LAMBDA r : With(UtcOffsetSet(c, LocalDayjs(r[1]), r[2]),
                             LAMBDA ins : [ins EXCEPT !.timezone = tz]))

\* x.tz(tz, keepLocalTime) of the timezone plugin.
TzConvert(c, x, tz, keepLocalTime) ==
    LET oldOffset == UtcOffsetGet(c, x)
        date   == ValueOf(c, x)
        target == Wall(tz, date)              \* date.toLocaleString('en-US', {timeZone})
    IN  With(LocalToUtc(c, target),           \* new Date(target)
             LAMBDA parsed :
                 LET diff   == (date - parsed) \div 60
                     offset == -GetTimezoneOffset(c, date) - diff
                     ins    == UtcOffsetKeep(LocalDayjs(parsed), offset)
                     res    == IF offset = 0
                               THEN (IF keepLocalTime THEN UtcOffsetKeep(x, 0)
                                     ELSE UtcOffsetSet(c, x, 0))
                               ELSE IF keepLocalTime
                               THEN AddMinutes(ins, oldOffset - offset)
                               ELSE ins
                 IN  [res EXCEPT !.timezone = tz])

\* dayjs.tz(dayjs(), tz): the current instant shown in tz.
TzNow(c, now, tz) == With(LocalDayjs(now), LAMBDA d0 : TzConvert(c, d0, tz, FALSE))

\* startOf/endOf of dayjs core for the units used: "none" (no unit: a clone)
\* and "day".
CoreStartOf(c, x, units, isStartOf) ==
    IF units = "day"
    THEN LET w == Fields(c, x)
         IN  FromFields(c, x, (w \div 86400) * 86400 + (IF isStartOf THEN 0 ELSE 86399))
    ELSE x

\* startOf/endOf as overridden by the timezone plugin: an instance with a
\* $timezone is formatted, re-parsed as client-local time and converted back
\* with tz(timezone, true).
StartOf(c, x, units, isStartOf) ==
    IF x.timezone = ""
    THEN CoreStartOf(c, x, units, isStartOf)
    ELSE With(LocalDayjs(LocalToUtc(c, Fields(c, x))),
              LAMBDA withoutTz :
                  With(CoreStartOf(c, withoutTz, units, isStartOf),
                       LAMBDA startOfWithoutTz :
                           TzConvert(c, startOfWithoutTz, x.timezone, TRUE)))

\* this.isAfter(that): dayjs(that) < this.startOf(undefined)
IsAfter(c, this, that) ==
    With(StartOf(c, this, "none", TRUE), LAMBDA s : ValueOf(c, that) < ValueOf(c, s))

\* this.isSame(that, 'day')
IsSameDay(c, this, that) ==
    /\ With(StartOf(c, this, "day", TRUE), LAMBDA s : ValueOf(c, s) <= ValueOf(c, that))
    /\ With(StartOf(c, this, "day", FALSE), LAMBDA e : ValueOf(c, that) <= ValueOf(c, e))

\* ------------------------------------------------------------- strings

\* A string is a sequence of one-character strings.
Digits == <<"0", "1", "2", "3", "4", "5", "6", "7", "8", "9">>

IsDigit(ch) == \E i \in 1..10 : Digits[i] = ch

DigitValue(ch) == (CHOOSE i \in 1..10 : Digits[i] = ch) - 1

RECURSIVE SplitFrom(_, _, _)
\* String.prototype.split(sep) on the rest of s, cur being the piece so far.
SplitFrom(s, sep, cur) ==
    IF s = <<>> THEN <<cur>>
    ELSE IF Head(s) = sep THEN <<cur>> \o SplitFrom(Tail(s), sep, <<>>)
    ELSE SplitFrom(Tail(s), sep, Append(cur, Head(s)))

Split(s, sep) == SplitFrom(s, sep, <<>>)

RECURSIVE DecimalValue(_, _)
DecimalValue(s, acc) ==
    IF s = <<>> THEN acc ELSE DecimalValue(Tail(s), acc * 10 + DigitValue(Head(s)))

\* Number(s) for the strings of the model: the empty string is 0, a run of
\* decimal digits with an optional sign is its value, anything else is NaN.
ToNumber(s) ==
    LET body == IF s # <<>> /\ Head(s) \in {"-", "+"} THEN Tail(s) ELSE s
        neg  == s # <<>> /\ Head(s) = "-"
    IN  IF s = <<>> THEN [nan |-> FALSE, v |-> 0]
        ELSE IF body # <<>> /\ \A i \in 1..Len(body) : IsDigit(body[i])
        THEN [nan |-> FALSE, v |-> IF neg THEN -DecimalValue(body, 0) ELSE DecimalValue(body, 0)]
        ELSE [nan |-> TRUE, v |-> 0]

\* ------------------------------------------------------------ timeLogic

Thrown(msg) == [ok |-> FALSE, from |-> 0, to |-> 0, error |-> msg]

Returned(from, to) == [ok |-> TRUE, from |-> from, to |-> to, error |-> ""]

\* baseDate.hour(h).minute(m).second(0).millisecond(0)
AtTime(c, baseDate, h, m) ==
    With(SetHour(c, baseDate, h),
         LAMBDA a : With(SetMinute(c, a, m), LAMBDA b : SetSecond(c, b, 0)))

\* Lines 200-215: from and to on baseDate, the overnight rule, and the
\* conversion to instants.
RangeOn(c, baseDate, startHour, startMin, endHour, endMin) ==
    With(AtTime(c, baseDate, startHour, startMin),
         LAMBDA from :
             With(AtTime(c, baseDate, endHour, endMin),
                  LAMBDA to0 :
                      With(IF IsAfter(c, from, to0) THEN AddDays(c, to0, 1) ELSE to0,
                           LAMBDA to : Returned(ValueOf(c, from), ValueOf(c, to)))))

\* Values a caller can hand over in place of a string: null, and a number.
JsNull == "<null>"

JsNumber == "<123>"

\* typeof v
TypeOf(v) == IF v = JsNull THEN "object" ELSE IF v = JsNumber THEN "number" ELSE "string"

\* !v for a string, null or a number other than 0
Falsy(v) == v = "" \/ v = JsNull

\* A shift that is null or undefined.
JsNullShift == [null |-> TRUE]

\* !shift.f: the field is missing (undefined) or the empty string.
FieldFalsy(shift, f) == f \notin DOMAIN shift \/ shift[f] = <<>>

\* A validation that tests for a missing start or end only, and lets the
\* empty string through.
InvalidShift_MissingOnly(shift) ==
    shift = JsNullShift \/ "start" \notin DOMAIN shift \/ "end" \notin DOMAIN shift

\* Line 150: !shift || !shift.start || !shift.end
InvalidShift(shift) ==
    shift = JsNullShift \/ FieldFalsy(shift, "start") \/ FieldFalsy(shift, "end")

\* A validation without the typeof test.
InvalidTimezone_NoTypeCheck(tz) == Falsy(tz)

\* Line 155: !tz || typeof tz !== 'string'
InvalidTimezone(tz) == Falsy(tz) \/ TypeOf(tz) # "string"

\* The date library asks Intl.DateTimeFormat for the zone, which throws a
\* RangeError for a name that is no IANA zone.
KnownZone(tz) == tz \in DOMAIN ZoneRules

\* A validation that accepts more than two components.
InvalidFormat_AtLeastTwo(startParts, endParts) == Len(startParts) < 2 \/ Len(endParts) < 2

\* Line 178: startParts.length !== 2 || endParts.length !== 2
InvalidFormat(startParts, endParts) == Len(startParts) # 2 \/ Len(endParts) # 2

\* Line 186: isNaN(startHour) || isNaN(startMin) || isNaN(endHour) || isNaN(endMin)
InvalidValues(startHour, startMin, endHour, endMin) ==
    startHour.nan \/ startMin.nan \/ endHour.nan \/ endMin.nan

\* A validation that is off by one at the top: hour 24 passes.
InvalidHour_UpTo24(startHour, endHour) ==
    startHour < 0 \/ startHour > 24 \/ endHour < 0 \/ endHour > 24

\* Line 192: startHour < 0 || startHour > 23 || endHour < 0 || endHour > 23
InvalidHour(startHour, endHour) ==
    startHour < 0 \/ startHour > 23 \/ endHour < 0 \/ endHour > 23

\* A validation that is off by one at the top: minute 60 passes.
InvalidMinute_UpTo60(startMin, endMin) ==
    startMin < 0 \/ startMin > 60 \/ endMin < 0 \/ endMin > 60

\* Line 196: startMin < 0 || startMin > 59 || endMin < 0 || endMin > 59
InvalidMinute(startMin, endMin) ==
    startMin < 0 \/ startMin > 59 \/ endMin < 0 \/ endMin > 59

\* getShiftTimeRange(shift, tz, selectedDate) run by client zone c at instant
\* now.  shift is a record (a missing field is absent from it; dateOffset is
\* 0 when missing) or JsNullShift, shift.start and shift.end are strings, tz
\* is a zone name, "", JsNull or JsNumber, and selectedDate is a record whose
\* given is FALSE when it is omitted.  Every known zone and every date of the
\* model gives a valid baseDate, so the isValid() test of lines 164-166 never
\* throws here.
getShiftTimeRange(c, now, shift, tz, selectedDate) ==
    IF InvalidShift(shift)
    THEN Thrown("Invalid shift configuration")
    ELSE IF InvalidTimezone(tz)
    THEN Thrown("Invalid timezone")
    ELSE IF ~KnownZone(tz)
    THEN Thrown("Invalid time zone specified")
    ELSE
    With(IF selectedDate.given THEN TzParse(c, now, selectedDate, tz) ELSE TzNow(c, now, tz),
         LAMBDA base0 :
    With(IF shift.dateOffset # 0 THEN AddDays(c, base0, shift.dateOffset) ELSE base0,
         LAMBDA baseDate :
    With(<<Split(shift.start, ":"), Split(shift.end, ":")>>,
         LAMBDA parts :
    LET startParts == parts[1]
        endParts   == parts[2]
    IN  IF InvalidFormat(startParts, endParts)
        THEN Thrown("Invalid time format")
        ELSE
        With(<<ToNumber(startParts[1]), ToNumber(startParts[2]),
               ToNumber(endParts[1]), ToNumber(endParts[2])>>,
             LAMBDA n :
        LET startHour == n[1]
            startMin  == n[2]
            endHour   == n[3]
            endMin    == n[4]
        IN  IF InvalidValues(startHour, startMin, endHour, endMin)
            THEN Thrown("Invalid time values")
            ELSE IF InvalidHour(startHour.v, endHour.v)
            THEN Thrown("Invalid hour values")
            ELSE IF InvalidMinute(startMin.v, endMin.v)
            THEN Thrown("Invalid minute values")
            ELSE RangeOn(c, baseDate, startHour.v, startMin.v, endHour.v, endMin.v)))))

\* isShiftActive(shift, tz, selectedDate): [ok, active, error]; a failure of
\* getShiftTimeRange propagates.  Date.now() and dayjs() read the same
\* instant now.
isShiftActive(c, now, shift, tz, selectedDate) ==
    With(getShiftTimeRange(c, now, shift, tz, selectedDate),
         LAMBDA r :
    IF ~r.ok THEN [ok |-> FALSE, active |-> FALSE, error |-> r.error]
    ELSE IF selectedDate.given
    THEN With(<<TzParse(c, now, selectedDate, tz), TzNow(c, now, tz)>>,
              LAMBDA st :
                  LET selected == st[1]
                      today    == st[2]
                  IN  IF IsSameDay(c, selected, today)
                      THEN [ok |-> TRUE, active |-> now >= r.from /\ now <= r.to,
                            error |-> ""]
                      ELSE [ok |-> TRUE, active |-> FALSE, error |-> ""])
    ELSE [ok |-> TRUE, active |-> now >= r.from /\ now <= r.to, error |-> ""])

\* ---------------------------------------------------------------- inputs

\* "HH:mm" from its four digits.
HHmm(h1, h2, m1, m2) == <<h1, h2, ":", m1, m2>>

ValidTimes ==
    { HHmm("0", "0", "0", "0"), HHmm("0", "2", "3", "0"), HHmm("0", "6", "0", "0"),
      HHmm("0", "8", "0", "0"), HHmm("0", "8", "3", "0"), HHmm("2", "2", "0", "0") }

InvalidTimes ==
    { <<>>, <<"0", "8">>, HHmm("a", "b", "0", "0"), HHmm("2", "5", "0", "0"),
      HHmm("0", "8", "6", "0") }

\* More strings that are not a time of day: three components, a minute that
\* is no number, hour 24, a negative hour, a negative minute.
MoreInvalidTimes ==
    { <<"0", "8", ":", "0", "0", ":", "0", "0">>, HHmm("0", "8", "x", "x"),
      HHmm("2", "4", "0", "0"), <<"-", "1", ":", "0", "0">>,
      <<"0", "8", ":", "-", "5">> }

\* Strings with a component that is not written as an integer: an empty hour
\* and an empty minute.
LooseTimes == { <<":", "3", "0">>, <<"0", "8", ":">> }

Offsets == (-MaxOffset)..MaxOffset

\* Shifts with no start and end at all, with start only and with end only,
\* as in the tests of the invalid shift configuration.
MalformedShifts ==
    { [name |-> "Shift"],
      [name |-> "Shift", start |-> HHmm("0", "8", "0", "0")],
      [name |-> "Shift", end |-> HHmm("2", "2", "0", "0")] }

\* Shifts of which start, end or both are not a valid time of day.
BadTimeShifts ==
    LET bad == InvalidTimes \cup MoreInvalidTimes \cup LooseTimes
        all == bad \cup {HHmm("0", "8", "0", "0")}
    IN  { [name |-> "Shift", start |-> s, end |-> e, dateOffset |-> 0] :
            s \in all, e \in bad }

Shifts ==
    { [name |-> "Shift", start |-> s, end |-> e, dateOffset |-> o] :
        s \in ValidTimes, e \in ValidTimes, o \in Offsets }
    \cup
    { [name |-> "Shift", start |-> s, end |-> HHmm("2", "2", "0", "0"), dateOffset |-> o] :
        s \in InvalidTimes \cup MoreInvalidTimes \cup LooseTimes, o \in Offsets }
    \cup BadTimeShifts \cup MalformedShifts \cup {JsNullShift}

Zones == {"UTC", "EuropeWarsaw", "AmericaNewYork"}

\* What else a caller can pass as the timezone: the empty string, null, a
\* number, and a string that names no zone.
BadZones == {"", JsNull, JsNumber, "Invalid/Timezone"}

Omitted == [given |-> FALSE, month |-> 0, day |-> 0]

Date(m, d) == [given |-> TRUE, month |-> m, day |-> d]

Dates == { Date(1, 15), Date(3, 29), Date(3, 30), Date(3, 31), Date(10, 26) }

\* The instant of hh:mm:ss UTC on a date.
Instant(date, hh, mm, ss) == ParseDateUtc(date) + hh * 3600 + mm * 60 + ss

Instants ==
    { Instant(Date(1, 15), 12, 0, 30),
      Instant(Date(3, 30), 0, 30, 0),
      Instant(Date(3, 30), 7, 15, 10),
      Instant(Date(10, 26), 8, 15, 0) }

NoResult == [ok |-> FALSE, from |-> 0, to |-> 0, error |-> "not called"]

NoActive == [ok |-> FALSE, active |-> FALSE, error |-> "not called"]

\* ------------------------------------------------- the panel's values

\* The argument of the last onChangeTimeRange call; called is FALSE before
\* the first call.
NoRange == [called |-> FALSE, from |-> 0, to |-> 0]

Range(from, to) == [called |-> TRUE, from |-> from, to |-> to]

\* SimplePanel.tsx line 30: timezone = 'Europe/Warsaw' when the option is not
\* set.
Timezone(o) == IF "timezone" \in DOMAIN o THEN o.timezone ELSE "EuropeWarsaw"

\* dayjs().format('YYYY-MM-DD'): today's date on the client's clock.
TodayString(c, now) == DateOfWall(Wall(c, now)) @@ [given |-> TRUE]

\* The shifts configured in the panels of the model: a day shift, a night
\* shift, and a shift whose start was mistyped in the editor.
Morning ==
    [name |-> "Morning", start |-> HHmm("0", "6", "0", "0"),
     end |-> HHmm("1", "4", "0", "0"), dateOffset |-> 0]

Night ==
    [name |-> "Night", start |-> HHmm("2", "2", "0", "0"),
     end |-> HHmm("0", "6", "0", "0"), dateOffset |-> 0]

Mistyped ==
    [name |-> "Late", start |-> HHmm("2", "5", "0", "0"),
     end |-> HHmm("0", "6", "0", "0"), dateOffset |-> 0]

\* The shift that the editor's Add Shift button appends (SimpleEditor.tsx
\* line 18), and a second one added the same way whose times were edited and
\* whose name was left as it was.
NewShift ==
    [name |-> "New Shift", start |-> HHmm("0", "8", "0", "0"),
     end |-> HHmm("1", "6", "0", "0"), dateOffset |-> 0]

NewShiftEdited ==
    [name |-> "New Shift", start |-> HHmm("1", "6", "0", "0"),
     end |-> HHmm("2", "2", "0", "0"), dateOffset |-> 0]

\* The options of the panels of the model; the timezone option may be unset,
\* and may name no zone.
PanelOptions ==
    LET modes == {"buttons", "dropdown"}
        withTz == { [shifts |-> <<Morning, Night, Mistyped>>, displayMode |-> m,
                     showDatePicker |-> p, timezone |-> z] :
                      m \in modes, p \in BOOLEAN,
                      z \in {"UTC", "EuropeWarsaw", "Invalid/Timezone"} }
        noTz == { [shifts |-> l, displayMode |-> m, showDatePicker |-> TRUE] :
                      l \in { <<Morning, Night, Mistyped>>, <<NewShift, NewShiftEdited>> },
                      m \in modes }
        noShifts == { [shifts |-> <<>>, displayMode |-> "buttons", showDatePicker |-> TRUE] }
    IN  withTz \cup noTz \cup noShifts

\* The instants at which the panels of the model are looked at: two on the
\* day daylight time starts in Europe (the first of them still the day before
\* in America), and one on the day it ends.
PanelInstants ==
    { Instant(Date(3, 30), 0, 30, 0),
      Instant(Date(3, 30), 7, 15, 10),
      Instant(Date(10, 26), 8, 15, 0) }

\* What the user can enter in the date input: a date, or nothing (the input
\* cleared, value "").
InputDates == { Date(3, 29), Date(3, 30), Omitted }

\* The panel's state and the event that led to it, as kept in before.
PanelState ==
    [selectedDate |-> selectedDateState, selectedShift |-> selectedShift,
     error |-> error, calls |-> timeRangeCalls, range |-> hostTimeRange,
     op |-> op]

\* No panel is mounted.
NoPanel ==
    /\ options = [shifts |-> <<>>, displayMode |-> "buttons", showDatePicker |-> TRUE]
    /\ selectedDateState = Omitted
    /\ selectedShift = JsNullShift
    /\ error = ""
    /\ timeRangeCalls = 0
    /\ hostTimeRange = NoRange
    /\ before = PanelState

\* ------------------------------------------------- the error boundary
\* ErrorBoundary.tsx.  An error is a record with its message; a child is a
\* record with its name and what rendering it does: NoThrow when it renders,
\* otherwise the message of the error it throws.

NoThrow == "<renders>"

\* state.error and state.errorInfo before anything was caught (undefined).
NoError == [none |-> TRUE]

Children ==
    { [name |-> n, throws |-> t] :
        n \in {"Panel", "Other"}, t \in {NoThrow, "Test error", ""} }

\* The props of a render: children, and fallback when the parent passes one
\* (a node, or null).
BoundaryProps ==
    { [children |-> c] : c \in Children }
    \cup { [children |-> c, fallback |-> f] :
             c \in Children, f \in {JsNull, "Custom fallback"} }

\* Line 22.
constructor == [hasError |-> FALSE, error |-> NoError, errorInfo |-> NoError]

\* Lines 25-28: the partial state React merges when a child has thrown.
getDerivedStateFromError(err) == [hasError |-> TRUE, error |-> err]

\* A componentDidCatch that takes the boundary out of its error state.
componentDidCatch_ClearsFlag(err, errorInfo) ==
    [hasError |-> FALSE, error |-> err, errorInfo |-> errorInfo]

\* Lines 30-39: the partial state passed to setState (the two console.error
\* calls are kept in the instance's caught).
componentDidCatch(err, errorInfo) == [error |-> err, errorInfo |-> errorInfo]

\* this.setState(partial), and React's merge of getDerivedStateFromError's
\* result: the fields of partial replace those of state.
setState(state, partial) ==
    [f \in DOMAIN state |-> IF f \in DOMAIN partial THEN partial[f] ELSE state[f]]

\* if (this.props.fallback), line 44, is not taken.
FallbackFalsy(props) == "fallback" \notin DOMAIN props \/ Falsy(props.fallback)

\* render(), lines 41-73: what the boundary shows.
render(state, props) ==
    IF state.hasError
    THEN IF ~FallbackFalsy(props)
         THEN [view |-> "fallback", node |-> props.fallback]
         ELSE [view |-> "default", title |-> "Something went wrong",
               message |-> IF state.error = NoError \/ state.error.message = ""
                           THEN "An unexpected error occurred"
                           ELSE state.error.message]
    ELSE [view |-> "children", node |-> props.children.name]

\* An instance that has been constructed and not rendered yet.
NewBoundary(mounts) ==
    [state |-> constructor, props |-> [children |-> [name |-> "", throws |-> NoThrow]],
     shown |-> [view |-> "nothing"], renders |-> 0, mounts |-> mounts, caught |-> <<>>]

\* One render pass of instance b with props.  Without an error state the
\* children are rendered; when the child throws, React merges
\* getDerivedStateFromError's result, calls componentDidCatch and renders the
\* boundary again.  In the error state the children are not rendered.
Rendered(b, props) ==
    LET child == props.children
        threw == ~b.state.hasError /\ child.throws # NoThrow
        err   == [message |-> child.throws]
        info  == [componentStack |-> child.name]
        state == IF threw
                 THEN setState(setState(b.state, getDerivedStateFromError(err)),
                               componentDidCatch(err, info))
                 ELSE b.state
    IN  [state |-> state, props |-> props, shown |-> render(state, props),
         renders |-> b.renders + 1, mounts |-> b.mounts,
         caught |-> IF threw THEN Append(b.caught, err) ELSE b.caught]

\* No boundary is mounted.
NoBoundary == boundary = NewBoundary(0)

\* ------------------------------------------------------------ the editor
\* SimpleEditor.tsx.  Indexes are counted from 1 here, from 0 in the source.

\* The value prop: undefined, or an array with its items.
JsUndefined == [defined |-> FALSE, items |-> <<>>]

Array(items) == [defined |-> TRUE, items |-> items]

\* Line 7: const shifts = value || [].
EditorShifts(value) == IF value.defined THEN value.items ELSE <<>>

\* A shift saved without a dateOffset (the field is optional, types.ts).
Evening ==
    [name |-> "Evening", start |-> HHmm("1", "4", "0", "0"),
     end |-> HHmm("2", "2", "0", "0")]

\* The values the editor is opened with.
EditorValues ==
    { JsUndefined, Array(<<>>), Array(<<Morning, Night>>),
      Array(<<Morning, Evening, Mistyped>>), Array(<<NewShift, NewShift>>) }

\* What the user types into the inputs.
NameTexts == { "Updated" }

TimeTexts == { HHmm("0", "7", "3", "0") }

OffsetTexts ==
    { <<>>, <<"a", "b", "c">>, <<"5">>, <<"-", "2">>, <<"3", "a", "b", "c">>,
      <<"1", ".", "5">>, <<"0">> }

\* s is a run of decimal digits.
AllDigits(s) == \A i \in 1..Len(s) : IsDigit(s[i])

\* The value of an input of type number (line 69) after text was entered:
\* the text when it is a valid floating-point number, else the empty string.
NumberInputValue(text) ==
    LET body  == IF text # <<>> /\ Head(text) = "-" THEN Tail(text) ELSE text
        parts == Split(body, ".")
    IN  IF /\ body # <<>>
           /\ Len(parts) \in {1, 2}
           /\ parts[Len(parts)] # <<>>
           /\ \A i \in 1..Len(parts) : AllDigits(parts[i])
        THEN text
        ELSE <<>>

RECURSIVE DigitPrefix(_)
\* The longest run of decimal digits s starts with.
DigitPrefix(s) ==
    IF s = <<>> \/ ~IsDigit(Head(s)) THEN <<>> ELSE <<Head(s)>> \o DigitPrefix(Tail(s))

\* parseInt(s, 10): an optional sign and the digits that follow it; NaN when
\* there are none.
parseInt(s) ==
    LET neg    == s # <<>> /\ Head(s) = "-"
        body   == IF s # <<>> /\ Head(s) \in {"-", "+"} THEN Tail(s) ELSE s
        digits == DigitPrefix(body)
    IN  IF digits = <<>> THEN [nan |-> TRUE, v |-> 0]
        ELSE [nan |-> FALSE,
              v |-> IF neg THEN -DecimalValue(digits, 0) ELSE DecimalValue(digits, 0)]

\* n || 0, line 72.
OrZero(n) == IF n.nan \/ n.v = 0 THEN 0 ELSE n.v

\* shift.dateOffset ?? 0, lines 64 and 82.
DateOffsetOrZero(shift) == IF "dateOffset" \in DOMAIN shift THEN shift.dateOffset ELSE 0

\* An object literal that copies the required fields only.
SpreadWith_DropsOffset(shift, f, v) ==
    [g \in (DOMAIN shift \ {"dateOffset"}) \cup {f} |-> IF g = f THEN v ELSE shift[g]]

\* { ...shift, f: v }, lines 38, 45, 53, 64, 72 and 82.
SpreadWith(shift, f, v) ==
    [g \in DOMAIN shift \cup {f} |-> IF g = f THEN v ELSE shift[g]]

\* What a handler leaves behind: array is the content, after the handler, of
\* the array it was given as shifts, and changes are the arguments of its
\* onChange calls.
Handled(array, newShifts) == [array |-> array, changes |-> <<newShifts>>]

\* onShiftChange, lines 10-14: newShifts is a copy.
onShiftChange(shifts, index, updatedShift) ==
    Handled(shifts, [shifts EXCEPT ![index] = updatedShift])

\* onAddShift, lines 17-20.
onAddShift(shifts) == Handled(shifts, Append(shifts, NewShift))

\* A remove handler that drops the last shift whatever the index.
onRemoveShift_DropsLast(shifts, index) ==
    Handled(shifts, SubSeq(shifts, 1, Len(shifts) - 1))

\* onRemoveShift, lines 23-27: splice(index, 1) on a copy.
onRemoveShift(shifts, index) ==
    Handled(shifts, SubSeq(shifts, 1, index - 1) \o SubSeq(shifts, index + 1, Len(shifts)))

\* The editor before any event.
OpenedEditor(value) ==
    [value |-> value, given |-> EditorShifts(value), array |-> EditorShifts(value),
     changes |-> <<>>, event |-> [index |-> 0], edits |-> 0]

\* No editor is open.
NoEditor == editor = OpenedEditor(JsUndefined)

\* No call of the time logic has been made.
NoCall ==
    /\ callShift = JsNullShift
    /\ callTz = ""
    /\ callDate = Omitted
    /\ result = NoResult
    /\ active = NoActive

\* ---------------------------------------------------------- state machine

Init ==
    /\ callShift \in Shifts
    /\ callTz \in Zones \cup BadZones
    /\ callDate \in Dates \cup {Omitted}
    /\ clock \in Instants
    /\ clientTz \in Zones
    /\ op = "none"
    /\ result = NoResult
    /\ active = NoActive
    /\ NoPanel
    /\ NoBoundary
    /\ NoEditor

\* A caller runs getShiftTimeRange(shift, tz, selectedDate).
CallGetShiftTimeRange ==
    /\ op = "none"
    /\ op' = "getShiftTimeRange"
    /\ result' = getShiftTimeRange(clientTz, clock, callShift, callTz, callDate)
    /\ UNCHANGED <<callShift, callTz, callDate, clock, clientTz, active, panelVars,
                   componentVars>>

\* A caller runs isShiftActive(shift, tz, selectedDate).
CallIsShiftActive ==
    /\ op = "none"
    /\ op' = "isShiftActive"
    /\ active' = isShiftActive(clientTz, clock, callShift, callTz, callDate)
    /\ result' = getShiftTimeRange(clientTz, clock, callShift, callTz, callDate)
    /\ UNCHANGED <<callShift, callTz, callDate, clock, clientTz, panelVars,
                   componentVars>>

Next == CallGetShiftTimeRange \/ CallIsShiftActive

Spec == Init /\ [][Next]_vars

\* ---------------------------------------------------------------- the panel
\* SimplePanelContent: its state (selectedDate, selectedShift, error), its
\* handlers and what it renders.  The state updates of one handler are applied
\* together, as React batches them.

\* The panel is mounted: selectedDate is today on the client's clock, no
\* shift is selected, no error is shown (lines 34-36).
PanelInit ==
    /\ clock \in PanelInstants
    /\ clientTz \in Zones
    /\ options \in PanelOptions
    /\ selectedDateState = TodayString(clientTz, clock)
    /\ selectedShift = JsNullShift
    /\ error = ""
    /\ timeRangeCalls = 0
    /\ hostTimeRange = NoRange
    /\ op = "mount"
    /\ before = PanelState
    /\ NoCall
    /\ NoBoundary
    /\ NoEditor

\* The normal view is rendered: there are shifts (line 38) and no error is
\* shown (line 70).
NormalView == Len(options.shifts) > 0 /\ error = ""

\* The date picker section is rendered (lines 138, 240).
DatePickerShown == NormalView /\ options.showDatePicker

\* A click handler that marks the shift selected before it computes the
\* interval.
onShiftClick_SelectsFirst(shift) ==
    /\ NormalView
    /\ timeRangeCalls < MaxCalls
    /\ result' = getShiftTimeRange(clientTz, clock, shift, Timezone(options),
                                   selectedDateState)
    /\ selectedShift' = shift
    /\ IF result'.ok
       THEN /\ timeRangeCalls' = timeRangeCalls + 1
            /\ hostTimeRange' = Range(result'.from, result'.to)
            /\ error' = ""
       ELSE /\ error' = result'.error
            /\ UNCHANGED <<timeRangeCalls, hostTimeRange>>
    /\ before' = PanelState
    /\ op' = "onShiftClick"
    /\ callShift' = shift
    /\ callTz' = Timezone(options)
    /\ callDate' = selectedDateState
    /\ UNCHANGED <<componentVars, clock, clientTz, active, options, selectedDateState>>

\* A click handler that computes the interval for today, not for the selected
\* date.
onShiftClick_ForToday(shift) ==
    /\ NormalView
    /\ timeRangeCalls < MaxCalls
    /\ result' = getShiftTimeRange(clientTz, clock, shift, Timezone(options), Omitted)
    /\ IF result'.ok
       THEN /\ timeRangeCalls' = timeRangeCalls + 1
            /\ hostTimeRange' = Range(result'.from, result'.to)
            /\ selectedShift' = shift
            /\ error' = ""
       ELSE /\ error' = result'.error
            /\ UNCHANGED <<timeRangeCalls, hostTimeRange, selectedShift>>
    /\ before' = PanelState
    /\ op' = "onShiftClick"
    /\ callShift' = shift
    /\ callTz' = Timezone(options)
    /\ callDate' = selectedDateState
    /\ UNCHANGED <<componentVars, clock, clientTz, active, options, selectedDateState>>

\* onShiftClick(shift), lines 47-62: the user clicks a shift button, or picks
\* a shift in the dropdown.
onShiftClick(shift) ==
    /\ NormalView
    /\ timeRangeCalls < MaxCalls
    /\ result' = getShiftTimeRange(clientTz, clock, shift, Timezone(options),
                                   selectedDateState)
    /\ IF result'.ok
       THEN /\ timeRangeCalls' = timeRangeCalls + 1
            /\ hostTimeRange' = Range(result'.from, result'.to)
            /\ selectedShift' = shift
            /\ error' = ""
       ELSE /\ error' = result'.error
            /\ UNCHANGED <<timeRangeCalls, hostTimeRange, selectedShift>>
    /\ before' = PanelState
    /\ op' = "onShiftClick"
    /\ callShift' = shift
    /\ callTz' = Timezone(options)
    /\ callDate' = selectedDateState
    /\ UNCHANGED <<componentVars, clock, clientTz, active, options, selectedDateState>>

\* A date input handler that keeps the selected shift.
dateInputChange_KeepsShift(value) ==
    /\ DatePickerShown
    /\ value # selectedDateState
    /\ selectedDateState' = value
    /\ before' = PanelState
    /\ op' = "dateInputChange"
    /\ UNCHANGED <<componentVars, clock, clientTz, callShift, callTz, callDate, result,
                   active,
                   options, selectedShift, error, timeRangeCalls, hostTimeRange>>

\* The date input's onChange, lines 148-151 (dropdown mode) and 250-253
\* (button mode): the user changes the date to value.
dateInputChange(value) ==
    /\ DatePickerShown
    /\ value # selectedDateState
    /\ selectedDateState' = value
    /\ selectedShift' = JsNullShift
    /\ before' = PanelState
    /\ op' = "dateInputChange"
    /\ UNCHANGED <<componentVars, clock, clientTz, callShift, callTz, callDate, result,
                   active,
                   options, error, timeRangeCalls, hostTimeRange>>

\* onTodayClick, lines 64-67.
onTodayClick ==
    /\ DatePickerShown
    /\ selectedDateState' = TodayString(clientTz, clock)
    /\ before' = PanelState
    /\ op' = "onTodayClick"
    /\ UNCHANGED <<componentVars, clock, clientTz, callShift, callTz, callDate, result,
                   active,
                   options, selectedShift, error, timeRangeCalls, hostTimeRange>>

\* A Dismiss handler that resets the selection along with the error.
dismissError_ResetsSelection ==
    /\ Len(options.shifts) > 0
    /\ error # ""
    /\ error' = ""
    /\ selectedShift' = JsNullShift
    /\ before' = PanelState
    /\ op' = "dismissError"
    /\ UNCHANGED <<componentVars, clock, clientTz, callShift, callTz, callDate, result,
                   active,
                   options, selectedDateState, timeRangeCalls, hostTimeRange>>

\* The Dismiss button of the error view, line 85.
dismissError ==
    /\ Len(options.shifts) > 0
    /\ error # ""
    /\ error' = ""
    /\ before' = PanelState
    /\ op' = "dismissError"
    /\ UNCHANGED <<componentVars, clock, clientTz, callShift, callTz, callDate, result,
                   active,
                   options, selectedDateState, selectedShift, timeRangeCalls,
                   hostTimeRange>>

\* Time passes while the panel is open.
TimePasses ==
    /\ \E t \in PanelInstants : t > clock /\ clock' = t
    /\ before' = PanelState
    /\ op' = "timePasses"
    /\ UNCHANGED <<componentVars, clientTz, callShift, callTz, callDate, result, active,
                   options,
                   selectedDateState, selectedShift, error, timeRangeCalls,
                   hostTimeRange>>

PanelNext ==
    \/ \E i \in 1..Len(options.shifts) : onShiftClick(options.shifts[i])
    \/ \E value \in InputDates : dateInputChange(value)
    \/ onTodayClick
    \/ dismissError
    \/ TimePasses

PanelSpec == PanelInit /\ [][PanelNext]_vars

\* The shift's button is rendered as pressed (line 269, button mode).
isSelected(shift) == selectedShift # JsNullShift /\ selectedShift.name = shift.name

\* The dropdown shows the shift as its value (lines 99-104, 176).
selectedValue(shift) == selectedShift # JsNullShift /\ selectedShift = shift

\* The rendered panel shows the shift as the selected one.
Highlighted(shift) ==
    /\ NormalView
    /\ IF options.displayMode = "dropdown" THEN selectedValue(shift) ELSE isSelected(shift)

\* ---------------------------------------------- the error boundary, mounted

\* The boundary is mounted and rendered for the first time.
BoundaryInit ==
    /\ boundary \in { Rendered(NewBoundary(1), props) : props \in BoundaryProps }
    /\ op = "mount"
    /\ clock = 0
    /\ clientTz = "UTC"
    /\ NoCall
    /\ NoPanel
    /\ NoEditor

\* The parent renders the boundary again, with props.
BoundaryRender(props) ==
    /\ boundary.renders < MaxRenders
    /\ boundary' = Rendered(boundary, props)
    /\ op' = "render"
    /\ UNCHANGED <<callShift, callTz, callDate, clock, clientTz, result, active,
                   panelVars, editor>>

\* The parent unmounts the boundary and mounts a new one, with props.
BoundaryRemount(props) ==
    /\ boundary.mounts < MaxMounts
    /\ boundary' = Rendered(NewBoundary(boundary.mounts + 1), props)
    /\ op' = "mount"
    /\ UNCHANGED <<callShift, callTz, callDate, clock, clientTz, result, active,
                   panelVars, editor>>

BoundaryNext ==
    \/ \E props \in BoundaryProps : BoundaryRender(props)
    \/ \E props \in BoundaryProps : BoundaryRemount(props)

BoundarySpec == BoundaryInit /\ [][BoundaryNext]_vars

\* ------------------------------------------------------ the editor, opened

\* The editor is opened on a value.
EditorInit ==
    /\ editor \in { OpenedEditor(value) : value \in EditorValues }
    /\ op = "mount"
    /\ clock = 0
    /\ clientTz = "UTC"
    /\ NoCall
    /\ NoPanel
    /\ NoBoundary

\* A handler has run on the shifts at index (0: on the list) and left
\* handled; the host stores the list of the last onChange call and renders
\* the editor with it.
EditorEvent(name, index, field, text, handled) ==
    /\ editor.edits < MaxEdits
    /\ editor' = [value |-> Array(handled.changes[Len(handled.changes)]),
                  given |-> EditorShifts(editor.value),
                  array |-> handled.array,
                  changes |-> handled.changes,
                  event |-> [index |-> index, field |-> field, text |-> text],
                  edits |-> editor.edits + 1]
    /\ op' = name
    /\ UNCHANGED <<callShift, callTz, callDate, clock, clientTz, result, active,
                   panelVars, boundary>>

\* The Add Shift button, line 93.
AddShiftClick ==
    EditorEvent("onAddShift", 0, "", <<>>, onAddShift(EditorShifts(editor.value)))

\* The Remove button of the shift at index, line 88.
RemoveClick(index) ==
    EditorEvent("onRemoveShift", index, "", <<>>,
                onRemoveShift(EditorShifts(editor.value), index))

\* The name input of the shift at index, line 38.
NameInputChange(index, text) ==
    LET shifts == EditorShifts(editor.value)
    IN  /\ text # shifts[index].name
        /\ EditorEvent("nameInput", index, "name", text,
               onShiftChange(shifts, index, SpreadWith(shifts[index], "name", text)))

\* The start and end inputs of the shift at index, lines 45 and 53.
TimeInputChange(index, field, text) ==
    LET shifts == EditorShifts(editor.value)
    IN  /\ text # shifts[index][field]
        /\ EditorEvent("timeInput", index, field, text,
               onShiftChange(shifts, index, SpreadWith(shifts[index], field, text)))

\* The minus button of the shift at index, line 64.
MinusClick(index) ==
    LET shifts == EditorShifts(editor.value)
    IN  EditorEvent("minusClick", index, "dateOffset", <<>>,
            onShiftChange(shifts, index,
                SpreadWith(shifts[index], "dateOffset",
                           DateOffsetOrZero(shifts[index]) - 1)))

\* The plus button of the shift at index, line 82.
PlusClick(index) ==
    LET shifts == EditorShifts(editor.value)
    IN  EditorEvent("plusClick", index, "dateOffset", <<>>,
            onShiftChange(shifts, index,
                SpreadWith(shifts[index], "dateOffset",
                           DateOffsetOrZero(shifts[index]) + 1)))

\* The offset input of the shift at index, lines 68-77: text is entered.
OffsetInputChange(index, text) ==
    LET shifts == EditorShifts(editor.value)
    IN  EditorEvent("offsetInput", index, "dateOffset", text,
            onShiftChange(shifts, index,
                SpreadWith(shifts[index], "dateOffset",
                           OrZero(parseInt(NumberInputValue(text))))))

EditorNext ==
    \/ AddShiftClick
    \/ \E index \in 1..Len(EditorShifts(editor.value)) : RemoveClick(index)
    \/ \E index \in 1..Len(EditorShifts(editor.value)), text \in NameTexts :
           NameInputChange(index, text)
    \/ \E index \in 1..Len(EditorShifts(editor.value)), field \in {"start", "end"},
          text \in TimeTexts :
           TimeInputChange(index, field, text)
    \/ \E index \in 1..Len(EditorShifts(editor.value)) : MinusClick(index)
    \/ \E index \in 1..Len(EditorShifts(editor.value)) : PlusClick(index)
    \/ \E index \in 1..Len(EditorShifts(editor.value)), text \in OffsetTexts :
           OffsetInputChange(index, text)

EditorSpec == EditorInit /\ [][EditorNext]_vars

\* ------------------------------------------------------ claim vocabulary

\* Hour and minute of a valid "HH:mm" string.
HourOf(s) == ToNumber(Split(s, ":")[1]).v
MinuteOf(s) == ToNumber(Split(s, ":")[2]).v

\* Seconds after midnight of a valid "HH:mm" string.
TimeOfDay(s) == HourOf(s) * 3600 + MinuteOf(s) * 60

ValidShift(sh) == sh.start \in ValidTimes /\ sh.end \in ValidTimes

\* The anchor date of a call: selectedDate plus dateOffset days.
AnchorDate(sh, sel) == AddCivilDays(sel, sh.dateOffset)

\* Instant t, read back in zone z, shows time-of-day s on civil date d.
ReadsAs(z, t, d, s) ==
    /\ DateOfWall(Wall(z, t)) = d
    /\ Wall(z, t) % 86400 = TimeOfDay(s)

\* getShiftTimeRange has returned for a valid shift and a given date.
RangeReturned ==
    /\ op = "getShiftTimeRange"
    /\ result.ok
    /\ ValidShift(callShift)
    /\ callDate.given

\* C1: for every valid shift, timezone and selectedDate, from read back in the
\* timezone is start on the anchor date, and to read back in the timezone is
\* end on the anchor date or on the day after it.
C1_RoundTrip ==
    RangeReturned =>
        LET a == AnchorDate(callShift, callDate)
        IN  /\ ReadsAs(callTz, result.from, a, callShift.start)
            /\ \/ ReadsAs(callTz, result.to, a, callShift.end)
               \/ ReadsAs(callTz, result.to, AddCivilDays(a, 1), callShift.end)

\* C2: for every valid shift whose start is later in the day than its end,
\* from is start on the anchor date and to is end on the day after the anchor
\* date; for every valid shift whose start is earlier than its end, from and
\* to are start and end on the anchor date.
C2_OvernightRule ==
    RangeReturned =>
        LET a == AnchorDate(callShift, callDate)
        IN  /\ TimeOfDay(callShift.start) > TimeOfDay(callShift.end) =>
                /\ ReadsAs(callTz, result.from, a, callShift.start)
                /\ ReadsAs(callTz, result.to, AddCivilDays(a, 1), callShift.end)
            /\ TimeOfDay(callShift.start) < TimeOfDay(callShift.end) =>
                /\ ReadsAs(callTz, result.from, a, callShift.start)
                /\ ReadsAs(callTz, result.to, a, callShift.end)

\* C3 as stated: for every valid shift whose start and end are the same time
\* of day, to is the same wall-clock time on the calendar day after from, not
\* the same instant as from.
C3_EqualIsOvernight ==
    (RangeReturned /\ callShift.start = callShift.end) =>
        /\ result.to # result.from
        /\ Wall(callTz, result.to) % 86400 = Wall(callTz, result.from) % 86400
        /\ DateOfWall(Wall(callTz, result.to))
             = AddCivilDays(DateOfWall(Wall(callTz, result.from)), 1)

\* C4: whenever getShiftTimeRange returns, to is strictly greater than from.
C4_ToAfterFrom ==
    (op = "getShiftTimeRange" /\ result.ok) => result.to > result.from

\* C5: the call with dateOffset = d and selectedDate = D returns the same from
\* and to as the call with no dateOffset and selectedDate = D advanced by d
\* calendar days.
C5_OffsetShiftsAnchor ==
    RangeReturned =>
        LET plain == getShiftTimeRange(clientTz, clock,
                                       [callShift EXCEPT !.dateOffset = 0], callTz,
                                       AddCivilDays(callDate, callShift.dateOffset)
                                           @@ [given |-> TRUE])
        IN  plain.ok /\ plain.from = result.from /\ plain.to = result.to

\* The shift of the README's overnight example.
ReadmeNight ==
    [name |-> "Shift", start |-> HHmm("2", "2", "0", "0"),
     end |-> HHmm("0", "6", "0", "0"), dateOffset |-> 1]

\* C6: for the shift {22:00, 06:00, dateOffset 1} and selected date D, the
\* range runs from 22:00 of D to 06:00 of the day after D.
C6_ReadmeOvernight ==
    (RangeReturned /\ callShift = ReadmeNight) =>
        /\ ReadsAs(callTz, result.from, [month |-> callDate.month, day |-> callDate.day],
                   callShift.start)
        /\ ReadsAs(callTz, result.to, AddCivilDays(callDate, 1), callShift.end)

\* C7: for every valid shift and date and any two timezones, from read back
\* in each call's own timezone shows shift.start, and the two from instants
\* differ whenever the two zones' offsets at those instants differ.
C7_WallTimeInEveryZone ==
    RangeReturned =>
        \A z2 \in Zones :
            LET r2 == getShiftTimeRange(clientTz, clock, callShift, z2, callDate)
            IN  /\ r2.ok
                /\ Wall(callTz, result.from) % 86400 = TimeOfDay(callShift.start)
                /\ Wall(z2, r2.from) % 86400 = TimeOfDay(callShift.start)
                /\ Off(callTz, result.from) # Off(z2, r2.from) => result.from # r2.from

\* isShiftActive has returned for a valid shift.
ActiveReturned ==
    /\ op = "isShiftActive"
    /\ active.ok
    /\ ValidShift(callShift)

\* Today's civil date in the call's timezone.
Today == DateOfWall(Wall(callTz, clock))

SelectedDay == [month |-> callDate.month, day |-> callDate.day]

\* C8: whenever selectedDate's civil day differs from today's civil day in
\* the timezone, isShiftActive returns false.
C8_ActiveDateGating ==
    (ActiveReturned /\ callDate.given /\ SelectedDay # Today) => ~active.active

\* C9: when selectedDate is omitted or is today's civil date in the timezone,
\* isShiftActive is true exactly when from <= now <= to for the interval of
\* getShiftTimeRange on the same arguments, and the result with selectedDate
\* = today equals the result with selectedDate omitted.
C9_ActiveIffInInterval ==
    (ActiveReturned /\ (~callDate.given \/ SelectedDay = Today)) =>
        /\ active.active = (result.from <= clock /\ clock <= result.to)
        /\ isShiftActive(clientTz, clock, callShift, callTz, Today @@ [given |-> TRUE])
             = isShiftActive(clientTz, clock, callShift, callTz, Omitted)

\* The current wall-clock time of day in the timezone lies within the shift's
\* daily period from start to end (wrapping past midnight when start is later
\* than end).
InDailyPeriod ==
    LET t == Wall(callTz, clock) % 86400
        s == TimeOfDay(callShift.start)
        e == TimeOfDay(callShift.end)
    IN  IF s <= e THEN s <= t /\ t <= e ELSE t >= s \/ t <= e

\* C10: for every valid shift with no dateOffset and selectedDate omitted,
\* isShiftActive returns true whenever the current wall-clock time lies
\* within the shift's daily period, the part after midnight included.
C10_ActiveInDailyPeriod ==
    (ActiveReturned /\ ~callDate.given /\ callShift.dateOffset = 0 /\ InDailyPeriod)
        => active.active

\* ------------------------------------------------ claims on error handling

\* getShiftTimeRange has been called and has thrown an error whose message
\* starts with msg.
ThrewError(msg) == op = "getShiftTimeRange" /\ ~result.ok /\ result.error = msg

\* The shift is null or undefined, or its start or end is missing or empty.
LacksStartOrEnd(sh) ==
    \/ sh = JsNullShift
    \/ "start" \notin DOMAIN sh
    \/ "end" \notin DOMAIN sh
    \/ sh.start = <<>>
    \/ sh.end = <<>>

\* C11: whenever shift is null or undefined or its start or end is missing or
\* an empty string, getShiftTimeRange fails with 'Invalid shift configuration'
\* and returns no interval, whatever the timezone and selectedDate are.
C11_InvalidShiftError ==
    (op = "getShiftTimeRange" /\ LacksStartOrEnd(callShift))
        => ThrewError("Invalid shift configuration")

\* A call with a shift that has no end, an empty timezone and no selectedDate
\* has thrown the invalid-shift error.
C11_Witness ==
    /\ ThrewError("Invalid shift configuration")
    /\ callShift = [name |-> "Shift", start |-> HHmm("0", "8", "0", "0")]
    /\ callTz = ""
    /\ ~callDate.given

\* C12: whenever the shift has a start and an end and the timezone is empty,
\* null or not a string, getShiftTimeRange fails with 'Invalid timezone'.
C12_InvalidTimezoneError ==
    (op = "getShiftTimeRange" /\ ~LacksStartOrEnd(callShift)
        /\ callTz \in {"", JsNull, JsNumber})
        => ThrewError("Invalid timezone")

\* A call with a valid shift and a number as the timezone has thrown the
\* invalid-timezone error.
C12_Witness ==
    /\ ThrewError("Invalid timezone")
    /\ ValidShift(callShift)
    /\ callTz = JsNumber

RECURSIVE CountOf(_, _)
\* How many times the character ch occurs in the string s.
CountOf(s, ch) ==
    IF s = <<>> THEN 0
    ELSE (IF Head(s) = ch THEN 1 ELSE 0) + CountOf(Tail(s), ch)

\* The call has a shift with start and end and a timezone that names a zone.
ShiftAndZoneGiven ==
    /\ op = "getShiftTimeRange"
    /\ ~LacksStartOrEnd(callShift)
    /\ callTz \in Zones

\* start and end both have exactly one ':', that is, two components.
TwoComponents(sh) == CountOf(sh.start, ":") = 1 /\ CountOf(sh.end, ":") = 1

\* C13: whenever shift and timezone are valid and start or end does not split
\* on ':' into exactly two components, getShiftTimeRange fails with 'Invalid
\* time format'.
C13_InvalidTimeFormatError ==
    (ShiftAndZoneGiven /\ ~TwoComponents(callShift)) => ThrewError("Invalid time format")

\* A call whose end has three components has thrown the format error.
C13_Witness ==
    /\ ThrewError("Invalid time format")
    /\ callShift.start = HHmm("0", "8", "0", "0")
    /\ callShift.end = <<"0", "8", ":", "0", "0", ":", "0", "0">>

\* The four components of start and end, as strings.
Components(sh) ==
    << Split(sh.start, ":")[1], Split(sh.start, ":")[2],
       Split(sh.end, ":")[1], Split(sh.end, ":")[2] >>

\* The string is an integer in decimal: digits, with an optional sign.
IsIntegerText(s) ==
    LET body == IF s # <<>> /\ Head(s) \in {"-", "+"} THEN Tail(s) ELSE s
    IN  body # <<>> /\ \A i \in 1..Len(body) : IsDigit(body[i])

\* C14 as stated: for every start and end of two components each, if any of
\* the four components is not an integer, getShiftTimeRange fails with
\* 'Invalid time values' and returns no interval.
C14_InvalidTimeValueError ==
    (ShiftAndZoneGiven /\ TwoComponents(callShift)
        /\ \E i \in 1..4 : ~IsIntegerText(Components(callShift)[i]))
        => ThrewError("Invalid time values")

\* Every validation before the hour check passes: shift, timezone, format,
\* and four components that are numbers.
NumbersGiven ==
    /\ ShiftAndZoneGiven
    /\ TwoComponents(callShift)
    /\ \A i \in 1..4 : ~ToNumber(Components(callShift)[i]).nan

\* The numbers of the four components: start hour and minute, end hour and
\* minute.
NumberAt(i) == ToNumber(Components(callShift)[i]).v

HoursInRange == NumberAt(1) \in 0..23 /\ NumberAt(3) \in 0..23

MinutesInRange == NumberAt(2) \in 0..59 /\ NumberAt(4) \in 0..59

\* C15: getShiftTimeRange fails with 'Invalid hour values' whenever every
\* earlier validation passes and the hour of start or of end is outside
\* 0..23, and never fails with that error otherwise.
C15_InvalidHourError ==
    op = "getShiftTimeRange" =>
        (ThrewError("Invalid hour values") <=> (NumbersGiven /\ ~HoursInRange))

\* A call whose end has hour 25 (and whose start is valid) has thrown the hour
\* error.
C15_Witness ==
    /\ ThrewError("Invalid hour values")
    /\ callShift.start = HHmm("0", "8", "0", "0")
    /\ callShift.end = HHmm("2", "5", "0", "0")

\* C16: getShiftTimeRange fails with 'Invalid minute values' whenever every
\* earlier validation passes, both hours are in 0..23 and the minute of start
\* or of end is outside 0..59, and never fails with that error otherwise.
C16_InvalidMinuteError ==
    op = "getShiftTimeRange" =>
        (ThrewError("Invalid minute values")
            <=> (NumbersGiven /\ HoursInRange /\ ~MinutesInRange))

\* A call whose end has minute 60 (and whose start is valid) has thrown the
\* minute error.
C16_Witness ==
    /\ ThrewError("Invalid minute values")
    /\ callShift.start = HHmm("0", "8", "0", "0")
    /\ callShift.end = HHmm("0", "8", "6", "0")

\* ------------------------------------------------------ claims on the panel

\* What getShiftTimeRange gives for the clicked shift, the configured
\* timezone and the date that was selected when the user clicked.
ClickedRange ==
    getShiftTimeRange(clientTz, clock, callShift, Timezone(options), before.selectedDate)

\* The last event is a click on a shift whose interval resolves.
ClickSucceeded == op = "onShiftClick" /\ ClickedRange.ok

\* The last event is a click on a shift whose interval computation throws.
ClickFailed == op = "onShiftClick" /\ ~ClickedRange.ok

\* C17: when the user clicks a shift whose interval resolves without error,
\* the panel calls onChangeTimeRange exactly once, with exactly the {from, to}
\* of getShiftTimeRange(shift, configured timezone, selected date), and
\* afterwards that shift is the selected, highlighted shift.
C17_SuccessfulSelection ==
    ClickSucceeded =>
        /\ timeRangeCalls = before.calls + 1
        /\ hostTimeRange = Range(ClickedRange.from, ClickedRange.to)
        /\ selectedShift = callShift
        /\ Highlighted(callShift)

\* In dropdown mode, with a date other than today picked in the date input
\* and another shift selected before, the user has picked the night shift and
\* the host has received a second time range.
C17_Witness ==
    /\ ClickSucceeded
    /\ options.displayMode = "dropdown"
    /\ callShift = Night
    /\ before.selectedShift = Morning
    /\ before.selectedDate = Date(3, 29)
    /\ before.selectedDate # TodayString(clientTz, clock)
    /\ timeRangeCalls = 2

\* C18: when the user clicks a shift and the interval computation throws,
\* onChangeTimeRange is not called for that click, the clicked shift does not
\* become the selected shift, the selected date is unchanged, and the panel
\* shows the error message.
C18_FailedSelection ==
    ClickFailed =>
        /\ timeRangeCalls = before.calls
        /\ hostTimeRange = before.range
        /\ selectedShift = before.selectedShift
        /\ selectedShift # callShift
        /\ ~isSelected(callShift)
        /\ selectedDateState = before.selectedDate
        /\ error = ClickedRange.error
        /\ error # ""
        /\ ~NormalView

\* With the morning shift selected and its range applied, the user has
\* clicked the mistyped shift and the panel shows the hour error.
C18_Witness ==
    /\ ClickFailed
    /\ callShift = Mistyped
    /\ before.selectedShift = Morning
    /\ before.calls = 1
    /\ error = "Invalid hour values"

C19_WitnessButtons ==
    /\ op = "dateInputChange"
    /\ options.displayMode = "buttons"
    /\ before.selectedShift = Morning
    /\ selectedDateState = Omitted

\* C20: a click on Today sets the selected date to the current date, and
\* when that changes the selected date the selected shift is unselected.
C20_TodayUnselectsShift ==
    op = "onTodayClick" =>
        /\ selectedDateState = TodayString(clientTz, clock)
        /\ before.selectedDate # selectedDateState => selectedShift = JsNullShift

\* What the Today button does do: it sets the selected date to today on the
\* client's clock and leaves the selected shift, the error and the host's time
\* range as they were.
TodayKeepsShift ==
    op = "onTodayClick" =>
        /\ selectedDateState = TodayString(clientTz, clock)
        /\ selectedShift = before.selectedShift
        /\ hostTimeRange = before.range
        /\ timeRangeCalls = before.calls

\* The indexes of the shift buttons rendered as pressed.
PressedButtons == { i \in 1..Len(options.shifts) : isSelected(options.shifts[i]) }

\* C21: in button mode, over any configured list of shifts, at most one shift
\* button is shown as pressed, and it is the button of the last shift that
\* was clicked successfully.
C21_SinglePressedButton ==
    (options.displayMode = "buttons" /\ NormalView) =>
        /\ Cardinality(PressedButtons) <= 1
        /\ \A i \in PressedButtons : options.shifts[i] = selectedShift

\* The last event is a click that came right after an event that fixed the
\* selected date: the load of the panel, a click on Today, or a change of the
\* date input.
ClickAfterDateWasSet ==
    /\ op = "onShiftClick"
    /\ before.op \in {"mount", "onTodayClick", "dateInputChange"}

\* The date a panel on a client in zone c2 has selected after the same
\* events: today on that client's clock after a load or a click on Today, the
\* date that was entered after a change of the date input.
SelectedDateOnClient(c2) ==
    IF before.op = "dateInputChange" THEN before.selectedDate ELSE TodayString(c2, clock)

\* C22: for the same instant, timezone option, shift and user actions, the
\* {from, to} the panel passes to onChangeTimeRange is the same whatever the
\* client's local timezone is.
C22_ClientZoneIndependence ==
    (ClickAfterDateWasSet /\ result.ok) =>
        \A c2 \in Zones :
            LET r2 == getShiftTimeRange(c2, clock, callShift, Timezone(options),
                                        SelectedDateOnClient(c2))
            IN  r2.ok /\ hostTimeRange = Range(r2.from, r2.to)

\* ------------------------------------------- dates without an offset change
\* The failures of C1, C2, C5, C8 and C9 all need a change of UTC offset, in
\* the business timezone or in the client's zone, near the dates of the call.
\* The properties below state what the code does guarantee away from such a
\* change.

\* Zone z keeps one UTC offset from instant a to instant b.
OffsetFixed(z, a, b) ==
    \/ ZoneRules[z].std = ZoneRules[z].dst
    \/ ~(\E x \in {ZoneRules[z].start, ZoneRules[z].end} : a <= x /\ x <= b)

\* Neither the business timezone nor the client's zone changes its offset
\* within the days the call can touch.
NoOffsetChange ==
    LET base == IF callDate.given THEN ParseDateUtc(callDate) ELSE clock
        lo   == (IF base < clock THEN base ELSE clock) - (MaxOffset + 2) * 86400
        hi   == (IF base > clock THEN base ELSE clock) + (MaxOffset + 3) * 86400
    IN  KnownZone(callTz) /\ OffsetFixed(callTz, lo, hi) /\ OffsetFixed(clientTz, lo, hi)

\* Away from an offset change the round trip of C1 and the overnight rule of
\* C2 hold, and a shift with equal start and end gets a zero-length interval.
FixedOffset_RoundTrip ==
    NoOffsetChange =>
        /\ C1_RoundTrip
        /\ C2_OvernightRule
        /\ (RangeReturned /\ callShift.start = callShift.end) => result.to = result.from

\* Away from an offset change dateOffset only moves the anchor (C5).
FixedOffset_OffsetShiftsAnchor == NoOffsetChange => C5_OffsetShiftsAnchor

\* Away from an offset change isShiftActive gates on the selected day (C8)
\* and otherwise tests from <= now <= to (C9).
FixedOffset_Active == NoOffsetChange => (C8_ActiveDateGating /\ C9_ActiveIffInInterval)

\* getShiftTimeRange has returned for a valid shift and no selectedDate.
RangeReturnedForToday ==
    /\ op = "getShiftTimeRange"
    /\ result.ok
    /\ ValidShift(callShift)
    /\ ~callDate.given

\* C23: when selectedDate is omitted, the result equals the result of the
\* same call with selectedDate set to today's date in the timezone at the
\* current instant.
C23_OmittedDateIsToday ==
    RangeReturnedForToday =>
        result = getShiftTimeRange(clientTz, clock, callShift, callTz,
                                   Today @@ [given |-> TRUE])

\* Away from an offset change an omitted selectedDate is today's date in the
\* timezone (C23).
FixedOffset_OmittedDateIsToday == NoOffsetChange => C23_OmittedDateIsToday

\* The night after the anchor date of the call contains a change of the
\* timezone's offset: start on the anchor date and end on the day after it
\* are wall-clock readings that exist, and the offsets at the two differ.
NightHasTransition ==
    LET a  == AnchorDate(callShift, callDate)
        w1 == ParseDateUtc(a) + TimeOfDay(callShift.start)
        w2 == ParseDateUtc(a) + 86400 + TimeOfDay(callShift.end)
    IN  /\ Wall(callTz, LocalToUtc(callTz, w1)) = w1
        /\ Wall(callTz, LocalToUtc(callTz, w2)) = w2
        /\ Off(callTz, LocalToUtc(callTz, w1)) # Off(callTz, LocalToUtc(callTz, w2))

\* C24: for an overnight shift whose night contains a DST transition of the
\* timezone, to is the wall-clock end time on the calendar day after from's
\* date, and to - from is the 23 or 25 hours that the wall-clock times are
\* apart, not a fixed 24 hours more than on the same day.
C24_OvernightAcrossTransition ==
    (RangeReturned /\ TimeOfDay(callShift.start) > TimeOfDay(callShift.end)
        /\ NightHasTransition) =>
        /\ ReadsAs(callTz, result.to,
                   AddCivilDays(DateOfWall(Wall(callTz, result.from)), 1), callShift.end)
        /\ result.to - result.from
             = 86400 + TimeOfDay(callShift.end) - TimeOfDay(callShift.start)
                 - (Off(callTz, result.to) - Off(callTz, result.from)) * 60

\* C25: while an error is displayed, a click on Dismiss clears the error and
\* returns the panel to its normal view, with the selected date and the
\* selected shift as they were before the failed click; the error stays
\* displayed until Dismiss is clicked.  From the failed click to the click on
\* Dismiss every event leaves the selected date and shift as they were.
C25_DismissRestoresView ==
    /\ op = "dismissError" =>
        /\ before.error # ""
        /\ error = ""
        /\ NormalView
    /\ (error # "" \/ op = "dismissError") =>
        /\ selectedDateState = before.selectedDate
        /\ selectedShift = before.selectedShift
        /\ hostTimeRange = before.range
    /\ (before.error # "" /\ error = "") => op = "dismissError"
    /\ (before.error # "" /\ error # "") => error = before.error

\* The user has dismissed the hour error of a failed click; the morning shift
\* that was selected before that click is selected still.
C25_Witness ==
    /\ op = "dismissError"
    /\ before.error = "Invalid hour values"
    /\ selectedShift = Morning
    /\ Highlighted(Morning)

\* A custom fallback was given to the boundary's last render.
FallbackGiven == "fallback" \in DOMAIN boundary.props /\ boundary.props.fallback # JsNull

\* C26: once a child has thrown, every later render of the boundary shows the
\* fallback (the custom one when one is given, otherwise the default
\* 'Something went wrong' view) and never the children, as long as the
\* boundary stays mounted; as long as no child has thrown, it renders the
\* children.
C26_StickyBoundary ==
    boundary.renders > 0 =>
        IF boundary.caught = <<>>
        THEN boundary.shown = [view |-> "children", node |-> boundary.props.children.name]
        ELSE /\ Len(boundary.caught) = 1
             /\ boundary.shown.view # "children"
             /\ IF FallbackGiven
                THEN boundary.shown = [view |-> "fallback", node |-> boundary.props.fallback]
                ELSE /\ boundary.shown.view = "default"
                     /\ boundary.shown.title = "Something went wrong"

\* A child threw in an earlier render; the boundary is rendered again with a
\* child that renders, and shows the custom fallback.
C26_Witness ==
    /\ boundary.caught # <<>>
    /\ boundary.renders >= 2
    /\ boundary.props.children.throws = NoThrow
    /\ boundary.shown.view = "fallback"

\* The same, without a fallback: the default view is shown.
C26_WitnessDefault ==
    /\ boundary.caught # <<>>
    /\ boundary.renders >= 2
    /\ boundary.props.children.throws = NoThrow
    /\ boundary.shown.view = "default"

\* C27: a click on Remove at the shift at index i of a list of n shifts calls
\* onChange exactly once, with the n-1 shifts that are the list without the
\* element at i, the others unchanged and in their order; the list passed in
\* as value is not mutated.
C27_RemoveDropsOneShift ==
    op = "onRemoveShift" =>
        LET given == editor.given
            i     == editor.event.index
            n     == Len(given)
        IN  /\ Len(editor.changes) = 1
            /\ Len(editor.changes[1]) = n - 1
            /\ \A j \in 1..(n - 1) :
                   editor.changes[1][j] = given[IF j < i THEN j ELSE j + 1]
            /\ editor.array = given

\* The first of three shifts has been removed.
C27_Witness ==
    /\ op = "onRemoveShift"
    /\ Len(editor.given) = 3
    /\ editor.event.index = 1
    /\ editor.changes = << <<editor.given[2], editor.given[3]>> >>

ShiftFields == {"name", "start", "end", "dateOffset"}

\* Shift new is shift old but for field f.
SameButField(new, old, f) ==
    \A g \in ShiftFields \ {f} :
        /\ g \in DOMAIN new <=> g \in DOMAIN old
        /\ g \in DOMAIN old => new[g] = old[g]

\* The text writes a number: an optional sign, digits, and an optional
\* fraction.
WritesNumber(text) ==
    /\ \E k \in 1..Len(text) : IsDigit(text[k])
    /\ \A k \in 1..Len(text) :
           \/ IsDigit(text[k])
           \/ text[k] = "-" /\ k = 1
           \/ text[k] = "." /\ k < Len(text) /\ \A m \in 1..Len(text) : text[m] = "." => m = k

EditEvents == {"nameInput", "timeInput", "minusClick", "plusClick", "offsetInput"}

\* The dateOffset of the shift that was edited, before the edit, absent
\* counted as 0.
OffsetBeforeEdit ==
    LET old == editor.given[editor.event.index]
    IN  IF "dateOffset" \in DOMAIN old THEN old.dateOffset ELSE 0

\* C28: editing one field of the shift at index i calls onChange with a list
\* of the same length in which only that field of that shift differs; the
\* plus and minus buttons change dateOffset by +1 and -1, an absent dateOffset
\* counted as 0; an empty or non-numeric offset input yields dateOffset 0.
C28_EditChangesOneField ==
    op \in EditEvents =>
        LET given == editor.given
            i     == editor.event.index
            f     == editor.event.field
            out   == editor.changes[1]
        IN  /\ Len(editor.changes) = 1
            /\ Len(out) = Len(given)
            /\ \A j \in 1..Len(given) : j # i => out[j] = given[j]
            /\ SameButField(out[i], given[i], f)
            /\ f \in DOMAIN out[i]
            /\ op \in {"nameInput", "timeInput"} => out[i][f] = editor.event.text
            /\ op = "plusClick" => out[i].dateOffset = OffsetBeforeEdit + 1
            /\ op = "minusClick" => out[i].dateOffset = OffsetBeforeEdit - 1
            /\ (op = "offsetInput" /\ ~WritesNumber(editor.event.text)) =>
                   out[i].dateOffset = 0

\* Text that is no number was entered as the offset of a shift whose offset
\* was not 0, and the offset is 0 now.
C28_Witness ==
    /\ op = "offsetInput"
    /\ editor.event.text = <<"a", "b", "c">>
    /\ OffsetBeforeEdit # 0
    /\ editor.changes[1][editor.event.index].dateOffset = 0

\* The plus button was clicked on a shift saved without a dateOffset.
C28_WitnessAbsent ==
    /\ op = "plusClick"
    /\ "dateOffset" \notin DOMAIN editor.given[editor.event.index]
    /\ editor.changes[1][editor.event.index].dateOffset = 1

\* The interval of the selected shift for the selected date in the configured
\* timezone, as the panel would compute it now.
IntervalOfSelection ==
    getShiftTimeRange(clientTz, clock, selectedShift, Timezone(options), selectedDateState)

\* C29: in every state of the panel, after any shift clicks, date-input
\* changes, Today clicks, failed clicks and Dismiss, if a shift is marked
\* selected (and a date is selected) then the last range passed to
\* onChangeTimeRange is the interval of that shift for the selected date in
\* the configured timezone.
C29_SelectionNeverStale ==
    (NormalView /\ selectedShift # JsNullShift /\ selectedDateState.given) =>
        /\ IntervalOfSelection.ok
        /\ hostTimeRange = Range(IntervalOfSelection.from, IntervalOfSelection.to)

\* As long as Today has not been clicked with a shift selected, the range at
\* the host is the interval of the selected shift for the selected date.
SelectionFreshWithoutToday ==
    (NormalView /\ selectedShift # JsNullShift /\ selectedDateState.given) =>
        \/ /\ IntervalOfSelection.ok
           /\ hostTimeRange = Range(IntervalOfSelection.from, IntervalOfSelection.to)
        \/ op = "onTodayClick"
        \/ op \in {"timePasses", "dismissError", "onShiftClick"}
              /\ before.selectedShift = selectedShift
              /\ before.selectedDate = selectedDateState
              /\ before.range = hostTimeRange

\* The place in the order of the error the call reported: 0 when it returned
\* an interval.
ReportedStage ==
    IF result.ok THEN 0
    ELSE CASE result.error = "Invalid shift configuration" -> 1
           [] result.error = "Invalid timezone" -> 2
           [] result.error \in {"Invalid timezone or date", "Invalid time zone specified"} -> 3
           [] result.error = "Invalid time format" -> 4
           [] result.error = "Invalid time values" -> 5
           [] result.error = "Invalid hour values" -> 6
           [] result.error = "Invalid minute values" -> 7
           [] OTHER -> 8

\* The component is a number: an integer in decimal when empty counts as no
\* number, or whatever Number() takes for one.
IsNumberText(s, emptyIsNone) == IF emptyIsNone THEN IsIntegerText(s) ELSE ~ToNumber(s).nan

\* Component i of the call's shift is a number outside lo..hi.
OutOfRange(i, lo, hi, emptyIsNone) ==
    /\ IsNumberText(Components(callShift)[i], emptyIsNone)
    /\ NumberAt(i) \notin lo..hi

\* Which inputs of the call are invalid, by their places in the order:
\* 1 shift, 2 timezone, 3 timezone or date, 4 time format, 5 non-numeric time
\* value, 6 hour range, 7 minute range.  The times are looked at when the
\* shift has them, their components when there are two of them.
InvalidStages(emptyIsNone) ==
    LET timed == ~LacksStartOrEnd(callShift)
        split == timed /\ TwoComponents(callShift)
    IN  { k \in 1..7 :
            \/ k = 1 /\ LacksStartOrEnd(callShift)
            \/ k = 2 /\ callTz \in {"", JsNull, JsNumber}
            \/ k = 3 /\ callTz \notin Zones \cup {"", JsNull, JsNumber}
            \/ k = 4 /\ timed /\ ~TwoComponents(callShift)
            \/ k = 5 /\ split
                     /\ \E i \in 1..4 : ~IsNumberText(Components(callShift)[i], emptyIsNone)
            \/ k = 6 /\ split
                     /\ (OutOfRange(1, 0, 23, emptyIsNone) \/ OutOfRange(3, 0, 23, emptyIsNone))
            \/ k = 7 /\ split
                     /\ (OutOfRange(2, 0, 59, emptyIsNone) \/ OutOfRange(4, 0, 59, emptyIsNone)) }

FirstOf(stages) == CHOOSE k \in stages : \A j \in stages : k <= j

\* C30: when several inputs are invalid at once, getShiftTimeRange reports one
\* error, that of the first invalid input in the order: shift, timezone,
\* timezone or date, time format, non-numeric time value, hour range, minute
\* range; start and end are checked together at each place.
C30_ErrorPrecedence ==
    (op = "getShiftTimeRange" /\ Cardinality(InvalidStages(TRUE)) >= 2)
        => ReportedStage = FirstOf(InvalidStages(TRUE))

\* With the components that Number() takes for numbers (the empty one among
\* them), the reported error is that of the first invalid input in the
\* order, and an interval is returned when no input is invalid.
PrecedenceOfChecks ==
    op = "getShiftTimeRange" =>
        IF InvalidStages(FALSE) = {}
        THEN ReportedStage = 0
        ELSE ReportedStage = FirstOf(InvalidStages(FALSE))

\* An end with hour 25 and a start with minute 60: the hour error is the one
\* reported.
HourBeforeMinute ==
    /\ op = "getShiftTimeRange"
    /\ callTz \in Zones
    /\ ~LacksStartOrEnd(callShift)
    /\ callShift.start = HHmm("0", "8", "6", "0")
    /\ callShift.end = HHmm("2", "5", "0", "0")
    /\ result.error = "Invalid hour values"

====
